---------------------------- MODULE Spec2Model ----------------------------
(***************************************************************************)
(* Simple Smart Hub API (src/api/main.py): the settings record, the        *)
(* bounded sensor history, the duration parser, the light schedule         *)
(* computation of PUT /settings and the light/fan decision of              *)
(* POST /device_state_update.                                              *)
(*                                                                         *)
(* Python strings are sequences of one-character strings.  A time of day   *)
(* is a number of seconds since midnight, 0..86399; the clock's            *)
(* microseconds are dropped, which changes no comparison against the       *)
(* stored times because those carry whole seconds only.  Floats            *)
(* (temperatures) are integers; Optional[float] is <<>> for None and <<v>> *)
(* for a value.  A function that may raise returns a record with the       *)
(* exception's class name in exc ("" when it returns normally).            *)
(***************************************************************************)
EXTENDS Integers, Sequences, FiniteSets, TLC

VARIABLES
    current_settings,   \* the module-level settings dict (lines 27-34)
    sensor_history,     \* the deque of readings (line 36)
    arrivals,           \* history variable: every reading ever appended, in order
    request,            \* the request being answered (its inputs)
    response,           \* the answer of the last handler
    arg,                \* input of the pure function under test
    ret,                \* its result
    running,            \* the coroutine that occupies the event loop, or "idle"
    upd,                \* a PUT /settings coroutine: position and locals
    dec,                \* a POST /device_state_update coroutine: position and locals
    committed           \* history variable: the settings records that stood
                        \* between two requests of the event loop

vars == <<current_settings, sensor_history, arrivals, request, response,
          arg, ret, running, upd, dec, committed>>

----------------------------------------------------------------------------
(* Bounds of the model *)

\* longest duration string enumerated exhaustively for the parser
MaxLen == 4
\* POST /device_state_update requests in the endpoint specification
MaxPosts == 1
\* requests beyond the history capacity in the history specification
ExtraPosts == 5
\* PUT /settings coroutines in the event-loop specification
MaxUpdates == 2

----------------------------------------------------------------------------
(* Characters, str.lower, int *)

Digits == <<"0", "1", "2", "3", "4", "5", "6", "7", "8", "9">>

IsDigit(c) == c \in {"0", "1", "2", "3", "4", "5", "6", "7", "8", "9"}

DigitVal(c) ==
    CASE c = "0" -> 0 [] c = "1" -> 1 [] c = "2" -> 2 [] c = "3" -> 3
      [] c = "4" -> 4 [] c = "5" -> 5 [] c = "6" -> 6 [] c = "7" -> 7
      [] c = "8" -> 8 [] c = "9" -> 9

AllDigits(s) == \A i \in 1..Len(s) : IsDigit(s[i])

\* int(s) on a non-empty run of decimal digits
RECURSIVE IntOf(_)
IntOf(s) ==
    IF s = <<>> THEN 0
    ELSE 10 * IntOf(SubSeq(s, 1, Len(s) - 1)) + DigitVal(s[Len(s)])

\* int(s): ValueError unless s is a run of digits (the characters of the
\* model hold no sign, blank or underscore)
IntParses(s) == s # <<>> /\ AllDigits(s)

\* the letters of the model that have a lower case
LowerChar(c) ==
    CASE c = "S" -> "s" [] c = "U" -> "u" [] c = "N" -> "n"
      [] c = "E" -> "e" [] c = "T" -> "t" [] OTHER -> c

\* str.lower
StrLower(s) == [i \in 1..Len(s) |-> LowerChar(s[i])]

\* "%02d"
TwoDigits(n) == <<Digits[(n \div 10) + 1], Digits[(n % 10) + 1]>>

\* str.split(':')
RECURSIVE SplitColon(_)
SplitColon(s) ==
    IF \A i \in 1..Len(s) : s[i] # ":" THEN <<s>>
    ELSE LET k == CHOOSE i \in 1..Len(s) :
                      s[i] = ":" /\ \A j \in 1..(i - 1) : s[j] # ":"
         IN  <<SubSeq(s, 1, k - 1)>> \o SplitColon(SubSeq(s, k + 1, Len(s)))

DAY == 86400

----------------------------------------------------------------------------
(* parse_duration_to_timedelta, lines 64-76 *)

\* the digits \d+? takes at position p: the lazy run stops at the first
\* character that is not a digit, where the unit letter must stand
RECURSIVE DigitRun(_, _)
DigitRun(s, p) ==
    IF p <= Len(s) /\ IsDigit(s[p]) THEN 1 + DigitRun(s, p + 1) ELSE 0

\* one optional group ((\d+?)<unit>)? tried at position p, where n digits
\* stand: the capture and the position after it; an unmatched group
\* captures None (<<>>) and leaves the position alone
SegmentOf(s, p, unit, n) ==
    IF n >= 1 /\ p + n <= Len(s) /\ s[p + n] = unit
    THEN [capture |-> SubSeq(s, p, p + n - 1), next |-> p + n + 1]
    ELSE [capture |-> <<>>, next |-> p]

Segment(s, p, unit) == SegmentOf(s, p, unit, DigitRun(s, p))

SecondsGroup(h, m, s) ==
    [hours |-> h.capture, minutes |-> m.capture, seconds |-> s.capture,
     end |-> s.next]

MinutesGroup(time_str, h, m) == SecondsGroup(h, m, Segment(time_str, m.next, "s"))

HoursGroup(time_str, h) == MinutesGroup(time_str, h, Segment(time_str, h.next, "m"))

\* regex_duration.match(time_str).groupdict(): anchored at the start only,
\* every group optional, so the match itself never fails; end is the
\* position after the match
regex_duration_match(time_str) == HoursGroup(time_str, Segment(time_str, 1, "h"))

\* int(param) for a captured group, nothing for a group that is None
Param(capture) == IF capture # <<>> THEN IntOf(capture) ELSE 0

\* timedelta(**time_params), as its arguments and its length in seconds
Timedelta(hours, minutes, seconds) ==
    [exc |-> "", hours |-> hours, minutes |-> minutes, seconds |-> seconds,
     total |-> 3600 * hours + 60 * minutes + seconds]

\* lines 69-76, on the groups of the match
DurationOfGroups(parts) ==
    IF parts.hours = <<>> /\ parts.minutes = <<>> /\ parts.seconds = <<>>
    THEN [exc |-> "ValueError", hours |-> 0, minutes |-> 0, seconds |-> 0,
          total |-> 0]
    ELSE Timedelta(Param(parts.hours), Param(parts.minutes), Param(parts.seconds))

parse_duration_to_timedelta(time_str) ==
    DurationOfGroups(regex_duration_match(time_str))

----------------------------------------------------------------------------
(* Times of day: datetime.time, strftime("%H:%M:%S"), fromisoformat *)

\* time.strftime("%H:%M:%S") of a time of day in seconds
FormatTime(secs) ==
    TwoDigits(secs \div 3600) \o <<":">> \o TwoDigits((secs % 3600) \div 60)
        \o <<":">> \o TwoDigits(secs % 60)

\* dt_time(h, m, s): ValueError outside the ranges
TimeOfHMS(h, m, s) ==
    IF h > 23 \/ m > 59 \/ s > 59
    THEN [exc |-> "ValueError", secs |-> 0]
    ELSE [exc |-> "", secs |-> 3600 * h + 60 * m + s]

\* h, m, s = map(int, parts): ValueError when there are not three parts or
\* a part is no integer
TimeOfParts(parts) ==
    IF Len(parts) # 3 \/ \E i \in 1..Len(parts) : ~IntParses(parts[i])
    THEN [exc |-> "ValueError", secs |-> 0]
    ELSE TimeOfHMS(IntOf(parts[1]), IntOf(parts[2]), IntOf(parts[3]))

\* h, m, s = map(int, text.split(':')); dt_time(h, m, s), lines 115-116,
\* 118-119 and 166-168
TimeOfStr(text) == TimeOfParts(SplitColon(text))

\* a two-digit field at position p, below limit
Field2(s, p, limit) ==
    /\ p + 1 <= Len(s)
    /\ IsDigit(s[p]) /\ IsDigit(s[p + 1])
    /\ IntOf(SubSeq(s, p, p + 1)) < limit

\* the layouts of HH[:MM[:SS]] and HH[MM[SS]] that time.fromisoformat takes
ClockLayout(s) ==
    \/ Len(s) = 2 /\ Field2(s, 1, 24)
    \/ Len(s) = 5 /\ Field2(s, 1, 24) /\ s[3] = ":" /\ Field2(s, 4, 60)
    \/ Len(s) = 8 /\ Field2(s, 1, 24) /\ s[3] = ":" /\ Field2(s, 4, 60)
                  /\ s[6] = ":" /\ Field2(s, 7, 60)
    \/ Len(s) = 4 /\ Field2(s, 1, 24) /\ Field2(s, 3, 60)
    \/ Len(s) = 6 /\ Field2(s, 1, 24) /\ Field2(s, 3, 60) /\ Field2(s, 5, 60)

\* text without an optional leading "T"
StripT(text) ==
    IF Len(text) >= 1 /\ text[1] = "T" THEN SubSeq(text, 2, Len(text)) ELSE text

\* dt_time.fromisoformat(text) raises no ValueError, line 158 (its value is
\* discarded).  Fractions and UTC offsets need characters outside the
\* model's alphabet.
TimeFromIsoformatOk(text) == ClockLayout(StripT(text))

IsLeap(y) == (y % 4 = 0 /\ y % 100 # 0) \/ y % 400 = 0

DaysInMonth(y, m) ==
    IF m = 2 THEN (IF IsLeap(y) THEN 29 ELSE 28)
    ELSE IF m \in {4, 6, 9, 11} THEN 30 ELSE 31

ValidDate(y, m, d) == y >= 1 /\ m \in 1..12 /\ d >= 1 /\ d <= DaysInMonth(y, m)

\* YYYY-MM-DD at the head of s names a date
DateLayout(s) ==
    /\ Len(s) >= 10
    /\ AllDigits(SubSeq(s, 1, 4)) /\ s[5] = "-"
    /\ AllDigits(SubSeq(s, 6, 7)) /\ s[8] = "-"
    /\ AllDigits(SubSeq(s, 9, 10))
    /\ ValidDate(IntOf(SubSeq(s, 1, 4)), IntOf(SubSeq(s, 6, 7)),
                 IntOf(SubSeq(s, 9, 10)))

\* +HH:MM
OffsetLayout(s) ==
    Len(s) = 6 /\ s[1] = "+" /\ Field2(s, 2, 24) /\ s[4] = ":" /\ Field2(s, 5, 60)

\* datetime.fromisoformat(text).strftime("%H:%M:%S"), lines 90-91, for the
\* layouts YYYY-MM-DD, YYYY-MM-DDTHH:MM:SS and YYYY-MM-DDTHH:MM:SS+HH:MM;
\* any other text is a ValueError.  The time is that of the text's own
\* offset: strftime converts nothing.
DatetimeFromIsoformat(text) ==
    IF ~DateLayout(text) THEN [exc |-> "ValueError", secs |-> 0]
    ELSE IF Len(text) = 10 THEN [exc |-> "", secs |-> 0]
    ELSE IF /\ Len(text) \in {19, 25}
            /\ text[11] = "T"
            /\ Len(SplitColon(SubSeq(text, 12, 19))) = 3
            /\ ClockLayout(SubSeq(text, 12, 19))
            /\ (Len(text) = 25 => OffsetLayout(SubSeq(text, 20, 25)))
         THEN [exc |-> "", secs |-> TimeOfStr(SubSeq(text, 12, 19)).secs]
         ELSE [exc |-> "ValueError", secs |-> 0]

----------------------------------------------------------------------------
(* get_actual_sunset_time_utc_str, lines 79-100 *)

(* The exchange with api.sunrise-sunset.org is an input, lookup:           *)
(*   transport  "ok", or "error" when requests.get raises (timeout, ...)   *)
(*   http_ok    whether raise_for_status passes                            *)
(*   json       "invalid" (response.json() raises), "array" or "object"    *)
(*   status     the body's "status" member, or "absent"                    *)
(*   results    "absent", "null" or "object"                               *)
(*   sunset     "absent", "null" or "string": the "sunset" member's kind   *)
(*   text       the member's text when it is a string                      *)
(* The function returns the time string, or None (<<>>); exc names an      *)
(* exception that no except clause of the function catches.                *)
SunsetOfDatetime(dt) ==
    IF dt.exc # ""
    THEN \* ValueError
         [exc |-> "", value |-> <<>>]
    ELSE [exc |-> "", value |-> FormatTime(dt.secs)]

get_actual_sunset_time_utc_str(lookup) ==
    IF lookup.transport = "error" \/ ~lookup.http_ok \/ lookup.json = "invalid"
    THEN \* RequestException (JSONDecodeError is one, and a ValueError)
         [exc |-> "", value |-> <<>>]
    ELSE IF lookup.json = "array"
    THEN \* data.get: a list has no attribute get
         [exc |-> "AttributeError", value |-> <<>>]
    ELSE IF lookup.status # "OK"
    THEN [exc |-> "", value |-> <<>>]
    ELSE IF lookup.results = "absent"
    THEN \* KeyError
         [exc |-> "", value |-> <<>>]
    ELSE IF lookup.results = "null"
    THEN \* None["sunset"]: not subscriptable
         [exc |-> "TypeError", value |-> <<>>]
    ELSE IF lookup.sunset = "absent"
    THEN \* KeyError
         [exc |-> "", value |-> <<>>]
    ELSE IF lookup.sunset = "null"
    THEN \* fromisoformat: argument must be str
         [exc |-> "TypeError", value |-> <<>>]
    ELSE SunsetOfDatetime(DatetimeFromIsoformat(lookup.text))

----------------------------------------------------------------------------
(* make_control_decisions, lines 103-139 *)

\* the window with its end included
MutWindowInclusiveEnd(on, off, now) ==
    IF on > off THEN now >= on \/ now <= off
    ELSE on <= now /\ now <= off

\* lines 124-129: the window test on three times of day
LightWindow(on, off, now) ==
    IF on > off THEN now >= on \/ now < off
    ELSE on <= now /\ now < off

\* the except clause without its default
MutLightNoDefault(on, off, now) ==
    on.exc # "" \/ off.exc # "" \/ LightWindow(on.secs, off.secs, now)

\* lines 110-132 on the two parsed times: the try block; any exception
\* leaves the light off
LightOfTimes(on, off, now) ==
    IF on.exc # "" \/ off.exc # "" THEN FALSE
    ELSE LightWindow(on.secs, off.secs, now)

LightDecision(settings, now) ==
    LightOfTimes(TimeOfStr(settings.light_time_on_actual_utc),
                 TimeOfStr(settings.light_time_off_actual_utc), now)

\* the fan starting at the threshold
MutFanAtThreshold(settings, temperature_c) ==
    temperature_c # <<>> /\ temperature_c[1] >= settings.user_temp

\* lines 134-137, after the try block and inside `if presence_detected`
FanDecision(settings, temperature_c) ==
    temperature_c # <<>> /\ temperature_c[1] > settings.user_temp

\* the command returned, from the settings and the clock the function reads
make_control_decisions(settings, temperature_c, presence_detected, now) ==
    [light_on |-> presence_detected /\ LightDecision(settings, now),
     fan_on   |-> presence_detected /\ FanDecision(settings, temperature_c)]

----------------------------------------------------------------------------
(* update_user_settings_endpoint, lines 142-191 *)

NoLookup ==
    [transport |-> "none", http_ok |-> FALSE, json |-> "invalid",
     status |-> "absent", results |-> "absent", sunset |-> "absent",
     text |-> <<>>]

IsSunset(user_light) == StrLower(user_light) = <<"s", "u", "n", "s", "e", "t">>

\* lines 150-155: the sunset time, or the fallback when there is none
SunsetOrFallback(sunset_time_utc) ==
    IF sunset_time_utc.exc # ""
    THEN [exc |-> sunset_time_utc.exc, status |-> 500, value |-> <<>>]
    ELSE IF sunset_time_utc.value # <<>>
    THEN [exc |-> "", status |-> 200, value |-> sunset_time_utc.value]
    ELSE [exc |-> "", status |-> 200,
          value |-> <<"1", "8", ":", "0", "0", ":", "0", "0">>]

\* lines 146-161: the on time, or the exception that ends the request
ResolveLightOn(user_light, lookup) ==
    IF IsSunset(user_light)
    THEN SunsetOrFallback(get_actual_sunset_time_utc_str(lookup))
    ELSE IF TimeFromIsoformatOk(user_light)
         THEN [exc |-> "", status |-> 200, value |-> user_light]
         ELSE [exc |-> "HTTPException", status |-> 400, value |-> <<>>]

\* the off time without the date arithmetic: a sum past midnight is clamped
MutOffNoWrap(on_secs, total) ==
    FormatTime(IF on_secs + total >= DAY THEN DAY - 1 ELSE on_secs + total)

\* lines 168-172: (today at the on time + the duration).strftime("%H:%M:%S")
LightOffStr(on_secs, total) == FormatTime((on_secs + total) % DAY)

\* lines 164-175 on the parsed on time and duration: the off time, or the
\* 400 of a ValueError
LightOffOf(on, duration_td) ==
    IF on.exc # "" \/ duration_td.exc # ""
    THEN [exc |-> "HTTPException", status |-> 400, value |-> <<>>]
    ELSE [exc |-> "", status |-> 200,
          value |-> LightOffStr(on.secs, duration_td.total)]

ComputeLightOff(actual_light_on_utc_str, light_duration) ==
    LightOffOf(TimeOfStr(actual_light_on_utc_str),
               parse_duration_to_timedelta(light_duration))

Validated(on, off) ==
    [status |-> off.status, exc |-> off.exc, on |-> on.value, off |-> off.value]

ValidateFrom(on, light_duration) ==
    IF on.status # 200
    THEN [status |-> on.status, exc |-> on.exc, on |-> <<>>, off |-> <<>>]
    ELSE Validated(on, ComputeLightOff(on.value, light_duration))

\* everything before the first assignment to current_settings: the status
\* the request ends with and, for 200, the on and off times to store
ValidateUpdate(user_light, light_duration, lookup) ==
    ValidateFrom(ResolveLightOn(user_light, lookup), light_duration)

\* the commit without line 182
MutCommitStaleOff(settings, user_temp, user_light, light_duration, on, off) ==
    [settings EXCEPT !.user_temp = user_temp,
                     !.user_light_input = user_light,
                     !.light_duration_input = light_duration,
                     !.light_time_on_actual_utc = on]

\* lines 178-182
CommitSettings(settings, user_temp, user_light, light_duration, on, off) ==
    [settings EXCEPT !.user_temp = user_temp,
                     !.user_light_input = user_light,
                     !.light_duration_input = light_duration,
                     !.light_time_on_actual_utc = on,
                     !.light_time_off_actual_utc = off]

\* the settings the handler leaves behind
SettingsAfter(settings, v, user_temp, user_light, light_duration) ==
    IF v.status = 200
    THEN CommitSettings(settings, user_temp, user_light, light_duration, v.on, v.off)
    ELSE settings

NoRequest ==
    [op |-> "", user_temp |-> 0, user_light |-> <<>>, light_duration |-> <<>>,
     lookup |-> NoLookup, temperature |-> <<>>, presence |-> FALSE, now |-> 0,
     size |-> 0]

NoResponse ==
    [op |-> "", status |-> 0, exc |-> "", user_temp |-> 0, user_light |-> <<>>,
     light_time_off |-> <<>>, light_on |-> FALSE, fan_on |-> FALSE,
     readings |-> <<>>, count |-> 0, latest |-> <<>>]

\* lines 186-191, or the error response
SettingsResponse(v, after) ==
    IF v.status = 200
    THEN [NoResponse EXCEPT
             !.op = "put_settings", !.status = 200,
             !.user_temp = after.user_temp,
             !.user_light = after.light_time_on_actual_utc,
             !.light_time_off = after.light_time_off_actual_utc]
    ELSE [NoResponse EXCEPT !.op = "put_settings",
                            !.status = v.status, !.exc = v.exc]

UpdateWith(v, user_temp, user_light, light_duration, lookup) ==
    /\ current_settings' =
           SettingsAfter(current_settings, v, user_temp, user_light, light_duration)
    /\ request' = [NoRequest EXCEPT !.op = "put_settings",
                                    !.user_temp = user_temp,
                                    !.user_light = user_light,
                                    !.light_duration = light_duration,
                                    !.lookup = lookup]
    /\ response' = SettingsResponse(v, current_settings')
    /\ UNCHANGED <<sensor_history, arrivals, arg, ret, running, upd, dec, committed>>

update_user_settings_endpoint(user_temp, user_light, light_duration, lookup) ==
    UpdateWith(ValidateUpdate(user_light, light_duration, lookup),
               user_temp, user_light, light_duration, lookup)

----------------------------------------------------------------------------
(* The sensor history and its endpoints, lines 25, 36, 194-226 *)

MAX_HISTORY_SIZE == 100

\* a full history that refuses the new reading
MutAppendDropsNewest(history, reading) ==
    IF Len(history) >= MAX_HISTORY_SIZE THEN history ELSE Append(history, reading)

\* deque(maxlen=MAX_HISTORY_SIZE).append: a full deque drops its oldest item
DequeAppend(history, reading) ==
    IF Len(history) >= MAX_HISTORY_SIZE
    THEN Append(Tail(history), reading)
    ELSE Append(history, reading)

\* list(sensor_history)[-size:], line 213
LastN(history, size) ==
    SubSeq(history, (IF Len(history) > size THEN Len(history) - size ELSE 0) + 1,
           Len(history))

\* lines 196-208, with the reading built and the commands decided
ReportWith(reading_for_graph, commands_to_esp32) ==
    /\ sensor_history' = DequeAppend(sensor_history, reading_for_graph)
    /\ arrivals' = Append(arrivals, reading_for_graph)
    /\ request' = [NoRequest EXCEPT !.op = "device_state_update",
                                    !.temperature = reading_for_graph.temperature,
                                    !.presence = reading_for_graph.presence,
                                    !.now = reading_for_graph.datetime]
    /\ response' = [NoResponse EXCEPT !.op = "device_state_update",
                                     !.status = 200,
                                     !.light_on = commands_to_esp32.light_on,
                                     !.fan_on = commands_to_esp32.fan_on]
    /\ UNCHANGED <<current_settings, arg, ret, running, upd, dec, committed>>

\* lines 194-208; both clock reads of the request fall in the second `now`
process_esp32_data_and_return_commands(temperature, presence, now) ==
    ReportWith([temperature |-> temperature, presence |-> presence,
                datetime |-> now],
               make_control_decisions(current_settings, temperature, presence, now))

\* lines 210-213, for a size the Query validation lets through
get_graph_data_endpoint(size) ==
    /\ request' = [NoRequest EXCEPT !.op = "graph", !.size = size]
    /\ response' = [NoResponse EXCEPT !.op = "graph", !.status = 200,
                                     !.readings = LastN(sensor_history, size)]
    /\ UNCHANGED <<current_settings, sensor_history, arrivals, arg, ret,
                   running, upd, dec, committed>>

\* lines 219-226
get_debug_information ==
    /\ request' = [NoRequest EXCEPT !.op = "debug_info"]
    /\ response' = [NoResponse EXCEPT
                       !.op = "debug_info", !.status = 200,
                       !.count = Len(sensor_history),
                       !.latest = IF sensor_history # <<>>
                                  THEN <<sensor_history[Len(sensor_history)]>>
                                  ELSE <<>>]
    /\ UNCHANGED <<current_settings, sensor_history, arrivals, arg, ret,
                   running, upd, dec, committed>>


----------------------------------------------------------------------------
(* The initial state and the requests the specifications draw from *)

\* lines 27-34
InitialSettings ==
    [_id |-> "default_settings_id_123",
     user_temp |-> 25,
     user_light_input |-> <<"1", "8", ":", "0", "0", ":", "0", "0">>,
     light_duration_input |-> <<"2", "h">>,
     light_time_on_actual_utc |-> <<"1", "8", ":", "0", "0", ":", "0", "0">>,
     light_time_off_actual_utc |-> <<"2", "0", ":", "0", "0", ":", "0", "0">>]

IdleTask == [pc |-> "idle", n |-> 0, user_temp |-> 0, user_light |-> <<>>,
             light_duration |-> <<>>, on |-> <<>>, off |-> <<>>,
             temperature |-> <<>>, presence |-> FALSE, now |-> 0,
             on_read |-> <<>>, off_read |-> <<>>, temp_read |-> 0,
             light_on |-> FALSE, fan_on |-> FALSE]

NoResult == [exc |-> "", hours |-> 0, minutes |-> 0, seconds |-> 0, total |-> 0,
             light_on |-> FALSE, fan_on |-> FALSE, done |-> FALSE]

Init ==
    /\ current_settings = InitialSettings
    /\ sensor_history = <<>>
    /\ arrivals = <<>>
    /\ request = NoRequest
    /\ response = NoResponse
    /\ arg = <<>>
    /\ ret = NoResult
    /\ running = "idle"
    /\ upd = IdleTask
    /\ dec = IdleTask
    /\ committed = {InitialSettings}

Answer(json, status, results, sunset, text) ==
    [transport |-> "ok", http_ok |-> TRUE, json |-> json, status |-> status,
     results |-> results, sunset |-> sunset, text |-> text]

\* "2015-05-21T23:22:59+00:00"
SunsetText ==
    <<"2", "0", "1", "5", "-", "0", "5", "-", "2", "1", "T",
      "2", "3", ":", "2", "2", ":", "5", "9", "+", "0", "0", ":", "0", "0">>

\* "2015-02-30T23:22:59+00:00": no such day
BadSunsetText ==
    <<"2", "0", "1", "5", "-", "0", "2", "-", "3", "0", "T",
      "2", "3", ":", "2", "2", ":", "5", "9", "+", "0", "0", ":", "0", "0">>

\* the exchanges with the sunset service that a request may meet
Lookups ==
    { Answer("object", "OK", "object", "string", SunsetText),
      Answer("object", "OK", "object", "string", BadSunsetText),
      Answer("object", "OK", "object", "absent", <<>>),
      Answer("object", "OK", "object", "null", <<>>),
      Answer("object", "OK", "absent", "absent", <<>>),
      Answer("object", "OK", "null", "absent", <<>>),
      Answer("object", "INVALID_REQUEST", "absent", "absent", <<>>),
      Answer("array", "absent", "absent", "absent", <<>>),
      Answer("invalid", "absent", "absent", "absent", <<>>),
      [Answer("invalid", "absent", "absent", "absent", <<>>)
           EXCEPT !.http_ok = FALSE],
      [NoLookup EXCEPT !.transport = "error"] }

\* the lookup happens only for "sunset"
LookupsFor(user_light, lookups) ==
    IF IsSunset(user_light) THEN lookups ELSE {NoLookup}

UserTemps == {25, 30}

Sunset == <<"s", "u", "n", "s", "e", "t">>

UserLights ==
    { Sunset,
      <<"S", "u", "n", "S", "E", "T">>,
      <<"2", "2", ":", "3", "0", ":", "0", "0">>,
      <<"0", "8", ":", "0", "0", ":", "0", "0">>,
      <<"1", "8", ":", "3", "0">>,
      <<"T", "0", "8", ":", "0", "0", ":", "0", "0">>,
      <<"2", "5", ":", "0", "0", ":", "0", "0">>,
      <<"s", "u", "n">> }

LightDurations ==
    { <<"2", "h">>, <<"2", "4", "h">>,
      <<"1", "2", "h", "3", "0", "m", "1", "5", "s">>,
      <<"2", "h", "x">>, <<"x">>, <<>> }

\* clock readings at the edges of the stored window and half a day off
ClockSamples(settings) ==
    LET on  == TimeOfStr(settings.light_time_on_actual_utc).secs
        off == TimeOfStr(settings.light_time_off_actual_utc).secs
    IN  {(x + d) % DAY : x \in {on, off}, d \in {DAY - 1, 0}}
            \cup {(on + 43200) % DAY}

----------------------------------------------------------------------------
(* SpecSettings: PUT /settings requests, one at a time, against every      *)
(* exchange with the sunset service                                        *)

PutSettings ==
    \E user_temp \in UserTemps, user_light \in UserLights,
       light_duration \in LightDurations :
        \E lookup \in LookupsFor(user_light, Lookups) :
            update_user_settings_endpoint(user_temp, user_light, light_duration,
                                          lookup)

NextSettings == PutSettings \/ get_debug_information

SpecSettings == Init /\ [][NextSettings]_vars

----------------------------------------------------------------------------
(* Spec: settings updates followed by device reports *)

PutSchedule ==
    \E user_temp \in {25},
       user_light \in {Sunset, <<"2", "2", ":", "3", "0", ":", "0", "0">>,
                       <<"1", "8", ":", "3", "0">>},
       light_duration \in {<<"2", "h">>, <<"2", "4", "h">>, <<"9", "0", "m">>,
                           <<"0", "s">>, <<"x">>} :
        \E lookup \in LookupsFor(user_light,
                        {Answer("object", "OK", "object", "string", SunsetText),
                         [NoLookup EXCEPT !.transport = "error"]}) :
            update_user_settings_endpoint(user_temp, user_light, light_duration,
                                          lookup)

PostDeviceState ==
    /\ Len(arrivals) < MaxPosts
    /\ \E presence \in BOOLEAN, now \in ClockSamples(current_settings) :
           process_esp32_data_and_return_commands(<<26>>, presence, now)

Next == PutSchedule \/ PostDeviceState

Spec == Init /\ [][Next]_vars

----------------------------------------------------------------------------
(* SpecParse: parse_duration_to_timedelta on every string of at most       *)
(* MaxLen characters                                                       *)

ParseAlphabet == {"0", "2", "h", "m", "s", "x"}

DurationStrings == UNION {[1..n -> ParseAlphabet] : n \in 0..MaxLen}

InitParse ==
    /\ arg \in DurationStrings
    /\ current_settings = InitialSettings
    /\ sensor_history = <<>>
    /\ arrivals = <<>>
    /\ request = NoRequest
    /\ response = NoResponse
    /\ ret = NoResult
    /\ running = "idle"
    /\ upd = IdleTask
    /\ dec = IdleTask
    /\ committed = {InitialSettings}

ParseResult(td) ==
    [NoResult EXCEPT !.exc = td.exc, !.hours = td.hours, !.minutes = td.minutes,
                     !.seconds = td.seconds, !.total = td.total, !.done = TRUE]

ParseDuration ==
    /\ ~ret.done
    /\ ret' = ParseResult(parse_duration_to_timedelta(arg))
    /\ UNCHANGED <<current_settings, sensor_history, arrivals, request, response,
                   arg, running, upd, dec, committed>>

SpecParse == InitParse /\ [][ParseDuration]_vars

----------------------------------------------------------------------------
(* SpecDecide: make_control_decisions on stored time strings of every      *)
(* kind, well formed or not                                                *)

TimeStrings ==
    { <<"0", "0", ":", "0", "0", ":", "0", "0">>,
      <<"0", "2", ":", "0", "0", ":", "0", "0">>,
      <<"0", "8", ":", "0", "0", ":", "0", "0">>,
      <<"2", "0", ":", "0", "0", ":", "0", "0">>,
      <<"2", "3", ":", "0", "0", ":", "0", "0">>,
      <<"2", "3", ":", "5", "9", ":", "5", "9">>,
      <<"8", ":", "0", ":", "0">>,
      <<"2", "4", ":", "0", "0", ":", "0", "0">>,
      <<"0", "8", ":", "0", "0", ":", "6", "0">>,
      <<"0", "8", ":", "0", "0">>,
      <<"0", "8", ":", "0", "0", ":", "0", "0", ":", "0", "0">>,
      <<"x", "x", ":", "0", "0", ":", "0", "0">>,
      <<>> }

Temperatures == {<<>>, <<24>>, <<25>>, <<26>>}

InitDecide ==
    /\ \E on \in TimeStrings, off \in TimeStrings, user_temp \in UserTemps :
           current_settings =
               [InitialSettings EXCEPT !.user_temp = user_temp,
                                       !.light_time_on_actual_utc = on,
                                       !.light_time_off_actual_utc = off]
    /\ sensor_history = <<>>
    /\ arrivals = <<>>
    /\ request = NoRequest
    /\ response = NoResponse
    /\ arg = <<>>
    /\ ret = NoResult
    /\ running = "idle"
    /\ upd = IdleTask
    /\ dec = IdleTask
    /\ committed = {InitialSettings}

DecideWith(commands, temperature, presence, now) ==
    /\ ret' = [NoResult EXCEPT !.light_on = commands.light_on,
                               !.fan_on = commands.fan_on, !.done = TRUE]
    /\ request' = [NoRequest EXCEPT !.op = "decide", !.temperature = temperature,
                                    !.presence = presence, !.now = now]
    /\ UNCHANGED <<current_settings, sensor_history, arrivals, response, arg,
                   running, upd, dec, committed>>

Decide ==
    /\ ~ret.done
    /\ \E temperature \in Temperatures, presence \in BOOLEAN,
          now \in ClockSamples(current_settings) \cup {0, DAY - 1} :
           DecideWith(make_control_decisions(current_settings, temperature,
                                             presence, now),
                      temperature, presence, now)

SpecDecide == InitDecide /\ [][Decide]_vars

----------------------------------------------------------------------------
(* SpecHistory: more device reports than the history holds; report number  *)
(* k carries temperature k, so that every reading differs                  *)

PostReport ==
    /\ Len(arrivals) < MAX_HISTORY_SIZE + ExtraPosts
    /\ process_esp32_data_and_return_commands(<<Len(arrivals) + 1>>,
                                              Len(arrivals) % 2 = 0, 0)

GetGraph == \E size \in 1..MAX_HISTORY_SIZE : get_graph_data_endpoint(size)

NextHistory == PostReport \/ GetGraph \/ get_debug_information

SpecHistory == Init /\ [][NextHistory]_vars

----------------------------------------------------------------------------
(* SpecLoop: the two handlers as coroutines of one event loop, a step per  *)
(* read or write of the shared settings.  Both are `async def` and hold no *)
(* await: once the loop starts one it runs to its return before the loop   *)
(* starts another.                                                         *)

\* the handlers as plain `def`: the thread pool interleaves them
MutRunsInThreadPool(task, started) == TRUE

\* the event loop's rule, lines 143 and 195: a pending coroutine starts
\* when the loop is free, a started one is the one the loop is running
Scheduled(task, started) ==
    IF started THEN running = task ELSE running = "idle"

\* a PUT /settings request arrives
UpdArrive ==
    /\ upd.pc = "idle"
    /\ upd.n < MaxUpdates
    /\ \E user_temp \in UserTemps,
          user_light \in {<<"2", "2", ":", "3", "0", ":", "0", "0">>,
                          <<"0", "8", ":", "0", "0", ":", "0", "0">>},
          light_duration \in {<<"2", "h">>, <<"9", "0", "m">>, <<"x">>} :
           upd' = [IdleTask EXCEPT !.pc = "pending", !.n = upd.n + 1,
                                   !.user_temp = user_temp,
                                   !.user_light = user_light,
                                   !.light_duration = light_duration]
    /\ UNCHANGED <<current_settings, sensor_history, arrivals, request, response,
                   arg, ret, running, dec, committed>>

UpdValidated(v) ==
    /\ upd' = IF v.status = 200
              THEN [upd EXCEPT !.pc = "w1", !.on = v.on, !.off = v.off]
              ELSE [upd EXCEPT !.pc = "idle"]
    /\ running' = IF v.status = 200 THEN "upd" ELSE "idle"
    /\ response' = IF v.status = 200 THEN response
                   ELSE [NoResponse EXCEPT !.op = "put_settings",
                                           !.status = v.status, !.exc = v.exc]
    /\ UNCHANGED <<current_settings, sensor_history, arrivals, request, arg, ret,
                   dec, committed>>

\* lines 146-175: the loop starts the coroutine, which validates
UpdValidate ==
    /\ upd.pc = "pending"
    /\ Scheduled("upd", FALSE)
    /\ UpdValidated(ValidateUpdate(upd.user_light, upd.light_duration, NoLookup))

UpdWrote(pc, settings) ==
    /\ current_settings' = settings
    /\ upd' = [upd EXCEPT !.pc = pc]
    /\ committed' = IF pc = "ret" THEN committed \cup {settings} ELSE committed
    /\ UNCHANGED <<sensor_history, arrivals, request, response, arg, ret,
                   running, dec>>

\* line 178
UpdWriteTemp ==
    /\ upd.pc = "w1" /\ Scheduled("upd", TRUE)
    /\ UpdWrote("w2", [current_settings EXCEPT !.user_temp = upd.user_temp])

\* line 179
UpdWriteLightInput ==
    /\ upd.pc = "w2" /\ Scheduled("upd", TRUE)
    /\ UpdWrote("w3", [current_settings EXCEPT !.user_light_input = upd.user_light])

\* line 180
UpdWriteDurationInput ==
    /\ upd.pc = "w3" /\ Scheduled("upd", TRUE)
    /\ UpdWrote("w4", [current_settings EXCEPT
                          !.light_duration_input = upd.light_duration])

\* line 181
UpdWriteOn ==
    /\ upd.pc = "w4" /\ Scheduled("upd", TRUE)
    /\ UpdWrote("w5", [current_settings EXCEPT !.light_time_on_actual_utc = upd.on])

\* line 182: the record is whole again
UpdWriteOff ==
    /\ upd.pc = "w5" /\ Scheduled("upd", TRUE)
    /\ UpdWrote("ret", [current_settings EXCEPT
                           !.light_time_off_actual_utc = upd.off])

\* lines 186-191
UpdReturn ==
    /\ upd.pc = "ret" /\ Scheduled("upd", TRUE)
    /\ upd' = [upd EXCEPT !.pc = "idle"]
    /\ running' = "idle"
    /\ response' = [NoResponse EXCEPT
                       !.op = "put_settings", !.status = 200,
                       !.user_temp = current_settings.user_temp,
                       !.user_light = current_settings.light_time_on_actual_utc,
                       !.light_time_off = current_settings.light_time_off_actual_utc]
    /\ UNCHANGED <<current_settings, sensor_history, arrivals, request, arg, ret,
                   dec, committed>>

\* a POST /device_state_update request arrives
DecArrive ==
    /\ dec.pc = "idle"
    /\ Len(arrivals) < MaxPosts
    /\ \E presence \in BOOLEAN, now \in {0, 82800} :
           dec' = [IdleTask EXCEPT !.pc = "pending", !.temperature = <<26>>,
                                   !.presence = presence, !.now = now]
    /\ UNCHANGED <<current_settings, sensor_history, arrivals, request, response,
                   arg, ret, running, upd, committed>>

DecAppended(reading_for_graph) ==
    /\ sensor_history' = DequeAppend(sensor_history, reading_for_graph)
    /\ arrivals' = Append(arrivals, reading_for_graph)
    /\ dec' = [dec EXCEPT !.pc = IF dec.presence THEN "r_on" ELSE "ret"]
    /\ running' = "dec"
    /\ UNCHANGED <<current_settings, request, response, arg, ret, upd, committed>>

\* lines 196-201 and 106-109: the loop starts the coroutine, which appends
\* the reading and tests presence
DecAppend ==
    /\ dec.pc = "pending"
    /\ Scheduled("dec", FALSE)
    /\ DecAppended([temperature |-> dec.temperature, presence |-> dec.presence,
                    datetime |-> dec.now])

DecStep(task) ==
    /\ dec' = task
    /\ UNCHANGED <<current_settings, sensor_history, arrivals, request, response,
                   arg, ret, running, upd, committed>>

\* line 112
DecReadOn ==
    /\ dec.pc = "r_on" /\ Scheduled("dec", TRUE)
    /\ DecStep([dec EXCEPT !.pc = "r_off",
                           !.on_read = current_settings.light_time_on_actual_utc])

\* line 113
DecReadOff ==
    /\ dec.pc = "r_off" /\ Scheduled("dec", TRUE)
    /\ DecStep([dec EXCEPT !.pc = "light",
                           !.off_read = current_settings.light_time_off_actual_utc])

\* lines 115-132
DecLight ==
    /\ dec.pc = "light" /\ Scheduled("dec", TRUE)
    /\ DecStep([dec EXCEPT !.pc = "fan",
                           !.light_on = LightOfTimes(TimeOfStr(dec.on_read),
                                                     TimeOfStr(dec.off_read),
                                                     dec.now)])

\* lines 134-137
DecFan ==
    /\ dec.pc = "fan" /\ Scheduled("dec", TRUE)
    /\ DecStep([dec EXCEPT !.pc = "ret",
                           !.temp_read = current_settings.user_temp,
                           !.fan_on = FanDecision(current_settings, dec.temperature)])

\* lines 139 and 205-208
DecReturn ==
    /\ dec.pc = "ret" /\ Scheduled("dec", TRUE)
    /\ dec' = [dec EXCEPT !.pc = "idle"]
    /\ running' = "idle"
    /\ request' = [NoRequest EXCEPT !.op = "device_state_update",
                                    !.temperature = dec.temperature,
                                    !.presence = dec.presence, !.now = dec.now]
    /\ response' = [NoResponse EXCEPT !.op = "device_state_update",
                                     !.status = 200,
                                     !.light_on = dec.light_on,
                                     !.fan_on = dec.fan_on]
    /\ UNCHANGED <<current_settings, sensor_history, arrivals, arg, ret, upd,
                   committed>>

NextLoop ==
    \/ UpdArrive \/ UpdValidate \/ UpdWriteTemp \/ UpdWriteLightInput
    \/ UpdWriteDurationInput \/ UpdWriteOn \/ UpdWriteOff \/ UpdReturn
    \/ DecArrive \/ DecAppend \/ DecReadOn \/ DecReadOff \/ DecLight \/ DecFan
    \/ DecReturn

SpecLoop == Init /\ [][NextLoop]_vars

----------------------------------------------------------------------------
(* What the claims speak of, stated without the program's own parsing *)

\* text is HH:MM:SS, a time of day
WellFormedTime(text) ==
    /\ Len(text) = 8
    /\ \A i \in {1, 2, 4, 5, 7, 8} : IsDigit(text[i])
    /\ text[3] = ":" /\ text[6] = ":"
    /\ 10 * DigitVal(text[1]) + DigitVal(text[2]) < 24
    /\ DigitVal(text[4]) < 6
    /\ DigitVal(text[7]) < 6

\* the seconds since midnight of a well-formed HH:MM:SS
ClockValue(text) ==
    36000 * DigitVal(text[1]) + 3600 * DigitVal(text[2])
        + 600 * DigitVal(text[4]) + 60 * DigitVal(text[5])
        + 10 * DigitVal(text[7]) + DigitVal(text[8])

\* the window of the specification: across midnight when on > off
InWindow(on, off, now) ==
    (on > off /\ (now >= on \/ now < off)) \/ (on <= off /\ on <= now /\ now < off)

\* the decimal value of a run of digits
RECURSIVE Decimal(_)
Decimal(s) ==
    IF Len(s) = 0 THEN 0 ELSE 10 * Decimal(SubSeq(s, 1, Len(s) - 1)) + DigitVal(s[Len(s)])

\* text can be read as three integers h:m:s within the ranges of a time
ReadableTime(text) ==
    \E i \in 1..Len(text), j \in 1..Len(text) :
        /\ i < j
        /\ \A k \in 1..Len(text) : (text[k] = ":") <=> (k \in {i, j})
        /\ i > 1 /\ j > i + 1 /\ j < Len(text)
        /\ \A k \in 1..Len(text) : k \notin {i, j} => IsDigit(text[k])
        /\ Decimal(SubSeq(text, 1, i - 1)) < 24
        /\ Decimal(SubSeq(text, i + 1, j - 1)) < 60
        /\ Decimal(SubSeq(text, j + 1, Len(text))) < 60

OnText == current_settings.light_time_on_actual_utc
OffText == current_settings.light_time_off_actual_utc

\* the fan rule of the specification on the request answered last
FanRule ==
    /\ request.presence
    /\ request.temperature # <<>>
    /\ request.temperature[1] > current_settings.user_temp

----------------------------------------------------------------------------
(* C1 *)

\* C1: for every well-formed stored on/off pair, every clock reading and
\* every presence flag, light_on = presence AND the reading lies in the
\* window [on, off), taken across midnight when on > off.
C1_LightFollowsWindow ==
    (ret.done /\ WellFormedTime(OnText) /\ WellFormedTime(OffText)) =>
        (ret.light_on <=>
            (request.presence
             /\ InWindow(ClockValue(OnText), ClockValue(OffText), request.now)))

\* a decision at now = on for a window that crosses midnight: the light is on
C1_Witness ==
    /\ ret.done /\ request.presence
    /\ WellFormedTime(OnText) /\ WellFormedTime(OffText)
    /\ ClockValue(OnText) > ClockValue(OffText)
    /\ request.now = ClockValue(OnText)
    /\ ret.light_on

----------------------------------------------------------------------------
(* C2 *)

\* C2: for every settings record, temperature, presence flag and clock
\* reading, fan_on = presence AND temperature present AND temperature >
\* user_temp, whatever the light window and the time are.
C2_FanFollowsThreshold == ret.done => (ret.fan_on <=> FanRule)

\* the fan runs while the light is off
C2_Witness == ret.done /\ ret.fan_on /\ ~ret.light_on /\ WellFormedTime(OnText)

----------------------------------------------------------------------------
(* C5 *)

----------------------------------------------------------------------------
(* C3 *)

\* the length in seconds of the stored duration input
StoredDuration ==
    parse_duration_to_timedelta(current_settings.light_duration_input).total

\* C3: in every reachable state the stored on and off times are valid
\* HH:MM:SS times of day, and off = (on + the duration parsed from the
\* stored light_duration_input) modulo 24 hours.
C3_StoredScheduleConsistent ==
    /\ WellFormedTime(OnText)
    /\ WellFormedTime(OffText)
    /\ ClockValue(OffText) = (ClockValue(OnText) + StoredDuration) % DAY

\* on = 22:30:00 with duration 2h is stored with off = 00:30:00
C3_Witness ==
    /\ response.op = "put_settings" /\ response.status = 200
    /\ OnText = <<"2", "2", ":", "3", "0", ":", "0", "0">>
    /\ current_settings.light_duration_input = <<"2", "h">>
    /\ OffText = <<"0", "0", ":", "3", "0", ":", "0", "0">>

----------------------------------------------------------------------------
(* C4 *)

\* the request names neither "sunset" nor a time, or a duration the parser
\* rejects
RejectedInput(req) ==
    \/ /\ StrLower(req.user_light) # Sunset
       /\ ~WellFormedTime(req.user_light)
    \/ parse_duration_to_timedelta(req.light_duration).exc # ""

\* C4: a PUT /settings request whose user_light is neither "sunset" nor
\* HH:MM:SS, or whose light_duration the parser rejects, ends in a 400 and
\* leaves every field of the stored settings as it was.
C4_RejectedUpdateIs400AndChangesNothing ==
    [][(request'.op = "put_settings" /\ RejectedInput(request')) =>
           (response'.status = 400 /\ current_settings' = current_settings)]_vars

----------------------------------------------------------------------------
(* C9 *)

\* the on time the claim expects of a "sunset" request: the time of day in
\* the service's answer when it holds one, 18:00:00 otherwise
ExpectedSunsetOn(lookup) ==
    IF /\ lookup.transport = "ok" /\ lookup.http_ok /\ lookup.json = "object"
       /\ lookup.status = "OK" /\ lookup.results = "object"
       /\ lookup.sunset = "string" /\ lookup.text = SunsetText
    THEN SubSeq(lookup.text, 12, 19)
    ELSE <<"1", "8", ":", "0", "0", ":", "0", "0">>

\* C9: a PUT /settings request for "sunset" in any letter case, with a
\* valid duration, never fails because of the lookup: it succeeds and
\* stores the resolved time, or 18:00:00 when there is none, as the on
\* time, with the off time computed from it.
C9_SunsetUpdateNeverFails ==
    (/\ request.op = "put_settings"
     /\ StrLower(request.user_light) = Sunset
     /\ parse_duration_to_timedelta(request.light_duration).exc = "") =>
        /\ response.status = 200
        /\ OnText = ExpectedSunsetOn(request.lookup)
        /\ response.user_light = OnText
        /\ ClockValue(OffText) = (ClockValue(OnText) + StoredDuration) % DAY

----------------------------------------------------------------------------
(* C10 *)

\* C10: with on time t and parsed duration d stored by PUT /settings (or by
\* the initial record), a device report with presence at clock reading now
\* gets light_on exactly when ((now - t) mod 24h) < (d mod 24h); for d a
\* multiple of 24h the light is never on.
C10_LightOnForRequestedSpan ==
    (request.op = "device_state_update" /\ request.presence) =>
        (response.light_on <=>
            ((request.now - ClockValue(OnText)) % DAY < StoredDuration % DAY))

\* 22:30:00 for 2h: a report at 00:29:59 finds the light on
C10_Witness ==
    /\ request.op = "device_state_update" /\ request.presence
    /\ OnText = <<"2", "2", ":", "3", "0", ":", "0", "0">>
    /\ current_settings.light_duration_input = <<"2", "h">>
    /\ request.now = 1799
    /\ response.light_on

----------------------------------------------------------------------------
(* C7 *)

\* the n last items of seq, oldest first
Newest(seq, n) == [i \in 1..n |-> seq[Len(seq) - n + i]]

Least(a, b) == IF a < b THEN a ELSE b

\* C7: after k device reports the history holds the min(k, 100) most recent
\* readings in arrival order, and GET /graph?size=N answers with the
\* min(N, length) most recent of them, oldest first.
C7_HistoryHoldsNewest ==
    /\ sensor_history = Newest(arrivals, Least(Len(arrivals), 100))
    /\ response.op = "graph" =>
           response.readings =
               Newest(arrivals, Least(request.size, Least(Len(arrivals), 100)))

\* more than 100 reports were made and a graph of 10 was answered
C7_Witness ==
    /\ Len(arrivals) > 100
    /\ Len(sensor_history) = 100
    /\ sensor_history[1] # arrivals[1]
    /\ response.op = "graph" /\ request.size = 10
    /\ Len(response.readings) = 10

----------------------------------------------------------------------------
(* C8 *)

\* seg is empty, or digits followed by the unit letter
UnitSegment(seg, unit) ==
    \/ seg = <<>>
    \/ /\ Len(seg) >= 2
       /\ seg[Len(seg)] = unit
       /\ \A i \in 1..(Len(seg) - 1) : IsDigit(seg[i])

\* the integer of a segment, 0 for a missing one
SegmentValue(seg) ==
    IF seg = <<>> THEN 0 ELSE Decimal(SubSeq(seg, 1, Len(seg) - 1))

\* text, in full, is (<int>h)?(<int>m)?(<int>s)? cut after a and b
FullPatternAt(text, a, b) ==
    /\ UnitSegment(SubSeq(text, 1, a), "h")
    /\ UnitSegment(SubSeq(text, a + 1, b), "m")
    /\ UnitSegment(SubSeq(text, b + 1, Len(text)), "s")

\* C8: parse_duration_to_timedelta succeeds exactly on the strings that
\* are, in full, (<int>h)?(<int>m)?(<int>s)? with at least one segment, and
\* then returns the captured integers (0 for a missing segment); on every
\* other string it fails with the invalid-format error.
C8_ParsesExactlyTheFullPattern ==
    ret.done =>
        /\ (ret.exc = "") <=>
               (arg # <<>> /\ \E a \in 0..Len(arg), b \in 0..Len(arg) :
                                  a <= b /\ FullPatternAt(arg, a, b))
        /\ ret.exc \in {"", "ValueError"}
        /\ \A a \in 0..Len(arg), b \in 0..Len(arg) :
               (arg # <<>> /\ a <= b /\ FullPatternAt(arg, a, b)) =>
                   /\ ret.hours = SegmentValue(SubSeq(arg, 1, a))
                   /\ ret.minutes = SegmentValue(SubSeq(arg, a + 1, b))
                   /\ ret.seconds = SegmentValue(SubSeq(arg, b + 1, Len(arg)))

----------------------------------------------------------------------------
(* C6 *)

\* the on time, off time and threshold the decision has read all stand in
\* one record that was whole at some moment
ReadFromOneRecord(fields) ==
    \E r \in committed :
        /\ "on" \in fields => dec.on_read = r.light_time_on_actual_utc
        /\ "off" \in fields => dec.off_read = r.light_time_off_actual_utc
        /\ "temp" \in fields => dec.temp_read = r.user_temp

\* C6: a decision that runs while PUT /settings requests are in flight
\* never uses a half-applied update: the on time, off time and user_temp it
\* reads come from one settings record, the one before an update or the one
\* after it.
C6_DecisionReadsOneRecord ==
    /\ dec.pc \in {"light", "fan"} => ReadFromOneRecord({"on", "off"})
    /\ (dec.pc = "ret" /\ dec.presence) => ReadFromOneRecord({"on", "off", "temp"})

\* a decision has read the record an update left, with the next update
\* waiting for the loop
C6_Witness ==
    /\ dec.pc = "ret" /\ dec.presence
    /\ upd.pc = "pending" /\ upd.n = 2
    /\ dec.on_read # InitialSettings.light_time_on_actual_utc
    /\ dec.temp_read # InitialSettings.user_temp

============================================================================
